---- MODULE Spec2Model ----
(***************************************************************************)
(* The POST /api handler `analyze` of src/main.py as a state machine.      *)
(*                                                                         *)
(* One request is followed from the creation of its working folder to its  *)
(* response.  Every await of the handler (form reading, the code-generator *)
(* calls, the code executions) is one action: the call, the collaborator's *)
(* nondeterministic result and the handler code up to the next await.      *)
(*                                                                         *)
(* Texts (captured output, exception texts) are sequences of one-character *)
(* strings, uploads sequences of bytes, JSON texts sequences of lexemes.   *)
(* A Python dict is a function whose DOMAIN is its set of keys, so d["k"]  *)
(* with "k" \notin DOMAIN d is a KeyError.                                 *)
(* An optional value (None or v) is the sequence <<>> or <<v>>.            *)
(***************************************************************************)
EXTENDS Integers, Sequences, FiniteSets, TLC

(***************************************************************************)
(* Bounds of the model.                                                    *)
(***************************************************************************)
MaxFields == 2        \* form fields in one request
MaxShortLen == 2      \* length of the exhaustively enumerated outputs
MaxExtraTokens == 1   \* tokens beyond the excerpt size in the long outputs

(***************************************************************************)
(* Program constants.                                                      *)
(***************************************************************************)
max_attempts == 3
DefaultN == 100

UPLOAD_DIR == <<"uploads">>

(***************************************************************************)
(* Text helpers: str.split(), words[-n:], ' '.join(...)                    *)
(***************************************************************************)
Whitespace == {" ", "\n"}

RECURSIVE SplitRange(_, _, _)
\* The words of s[lo..hi], halving the range: a word that runs across the
\* middle is put together again from the two halves.
SplitRange(s, lo, hi) ==
    IF lo > hi THEN <<>>
    ELSE IF lo = hi THEN (IF s[lo] \in Whitespace THEN <<>> ELSE << <<s[lo]>> >>)
    ELSE LET mid == (lo + hi) \div 2
             L == SplitRange(s, lo, mid)
             R == SplitRange(s, mid + 1, hi)
         IN  IF s[mid] \notin Whitespace /\ s[mid + 1] \notin Whitespace
             THEN SubSeq(L, 1, Len(L) - 1) \o << L[Len(L)] \o R[1] >> \o Tail(R)
             ELSE L \o R

\* s.split(): the maximal runs of non-whitespace characters, in order.
split(s) == SplitRange(s, 1, Len(s))

\* words[-n:] of a Python list (n > 0).
LastWords(words, n) ==
    IF Len(words) <= n THEN words
    ELSE SubSeq(words, Len(words) - n + 1, Len(words))

RECURSIVE JoinRange(_, _, _, _)
JoinRange(sep, words, lo, hi) ==
    IF lo > hi THEN <<>>
    ELSE IF lo = hi THEN words[lo]
    ELSE LET mid == (lo + hi) \div 2
         IN  JoinRange(sep, words, lo, mid) \o sep \o JoinRange(sep, words, mid + 1, hi)

\* sep.join(words)
join(sep, words) == JoinRange(sep, words, 1, Len(words))

\* A plausible slip: the head of the output instead of its tail.
last_n_words_head(s, n) ==
    join(<<" ">>, IF Len(split(s)) <= n THEN split(s) ELSE SubSeq(split(s), 1, n))

last_n_words(s, n) == join(<<" ">>, LastWords(split(s), n))

(***************************************************************************)
(* Paths.  A name is a sequence of pieces whose concatenation is the       *)
(* string; "/" is a piece of its own.                                      *)
(***************************************************************************)
\* os.path.join(a, b)
JoinPath(a, b) ==
    IF b # <<>> /\ b[1] = "/" THEN b ELSE a \o <<"/">> \o b

RECURSIVE ResolveFrom(_, _, _)
ResolveFrom(path, i, stack) ==
    IF i > Len(path) THEN stack
    ELSE IF path[i] = "/" THEN ResolveFrom(path, i + 1, stack)
    ELSE IF path[i] = ".." /\ stack # <<>>
         THEN ResolveFrom(path, i + 1, SubSeq(stack, 1, Len(stack) - 1))
    ELSE ResolveFrom(path, i + 1, Append(stack, path[i]))

\* The file a path names when it is opened: `..` steps up one directory.
Resolve(path) ==
    LET parts == ResolveFrom(path, 1, <<>>)
        rel == join(<<"/">>, [i \in 1..Len(parts) |-> <<parts[i]>>])
    IN  IF path # <<>> /\ path[1] = "/" THEN <<"/">> \o rel ELSE rel

\* path names a file inside the directory dir
Under(path, dir) ==
    /\ Len(path) > Len(dir) + 1
    /\ SubSeq(path, 1, Len(dir) + 1) = dir \o <<"/">>

\* `needle in name` for a needle that is one piece
Contains(name, needle) == \E i \in 1..Len(name) : name[i] = needle

RequestIds == { <<"r1">> }

\* The field names a client sends: any string, a path among them.
FieldNames ==
    { <<"questions.txt">>, <<"..", "/", "my_", "questions.txt">>,
      <<"metadata.txt">>, <<"/", "tmp", "/", "data.csv">> }

(***************************************************************************)
(* Uploaded contents are sequences of bytes: bytes that decode to the      *)
(* empty text, bytes that decode to a question, bytes that are not UTF-8,  *)
(* and the bytes of a data file.                                           *)
(***************************************************************************)
EmptyBytes == <<>>
QuestionBytes == <<"0x51">>
BadBytes == <<"0xff">>
DataBytes == <<"0x64">>
Contents == {EmptyBytes, QuestionBytes, BadBytes}

\* content.decode('utf-8'): UnicodeDecodeError on a byte that is not UTF-8,
\* and otherwise the text, character by character
DecodeOk(content) == \A i \in 1..Len(content) : content[i] # "0xff"
Decode(content) ==
    [i \in 1..Len(content) |-> IF content[i] = "0x51" THEN "Q" ELSE "d"]

\* A question field carries any of the contents, another field plain data.
Fields ==
    { f \in [name : FieldNames, content : Contents \cup {DataBytes}] :
        IF Contains(f.name, "questions.txt")
        THEN f.content \in Contents
        ELSE f.content = DataBytes }

\* The forms a client can send: up to MaxFields fields with distinct names.
Forms ==
    { f \in UNION { [1..n -> Fields] : n \in 0..MaxFields } :
        \A i, j \in 1..Len(f) : i # j => f[i].name # f[j].name }

(***************************************************************************)
(* The collaborators, by interface.                                        *)
(*                                                                         *)
(* run_python_code (task_engine) returns a dict {code, output}: code is a  *)
(* boolean-like status and output the captured text.  The executed code    *)
(* may write files into the working folder.                                *)
(***************************************************************************)
ExecCodes == {0, 1}

OutChars == {"a", " "}

\* Every text over OutChars of at most MaxShortLen characters.
ShortOutputs == UNION { [1..n -> OutChars] : n \in 0..MaxShortLen }

Letters == <<"a", "b", "c">>

\* k one-letter tokens (a b c a b ...) with `sep` between them
Synth(k, sep) ==
    LET unit == 1 + Len(sep)
    IN  [p \in 1..(k * unit - Len(sep)) |->
            IF (p - 1) % unit = 0
            THEN Letters[(((p - 1) \div unit) % 3) + 1]
            ELSE sep[(p - 1) % unit]]

\* Long synthetic outputs around the excerpt size.
LongOutputs ==
    { Synth(k, sep) : k \in DefaultN..(DefaultN + MaxExtraTokens),
                      sep \in { <<" ">>, <<"\n", " ">> } }

Outputs == ShortOutputs \cup LongOutputs

\* The output of a successful run is not read by the handler: one text.
SuccessOutput == <<"a">>

ExecOutcomes ==
    [code : {0}, output : Outputs] \cup [code : {1}, output : {SuccessOutput}]

MetaBytes == <<"m">>

(***************************************************************************)
(* The code generator (gemini): parse returns {code, libraries, questions},*)
(* answer returns {code, libraries}; either may raise, and a dict built    *)
(* from the model's reply may lack a key.                                  *)
(***************************************************************************)
ErrTexts == { <<"E", "1">> }
Questions == { <<"Q", "1">> }

ParseDicts ==
    LET full == [code : {"scrape_v1"}, libraries : { <<>> }, questions : Questions]
    IN  full
        \cup { [libraries |-> d.libraries, questions |-> d.questions] : d \in full }
        \cup { [code |-> d.code, questions |-> d.questions] : d \in full }
        \cup { [code |-> d.code, libraries |-> d.libraries] : d \in full }

AnswerDicts ==
    LET full == { [code |-> "answer_v1", libraries |-> <<>>],
                  [code |-> "answer_v2", libraries |-> <<"pandas">>] }
    IN  full
        \cup { [libraries |-> <<>>], [code |-> "answer_v1"] }

\* The result of a call: a dict returned, or an exception with its text.
Returned(d) == [raised |-> FALSE, value |-> d]
Raised(e) == [raised |-> TRUE, value |-> e]

ParseResults == { Returned(d) : d \in ParseDicts } \cup { Raised(e) : e \in ErrTexts }
AnswerResults == { Returned(d) : d \in AnswerDicts } \cup { Raised(e) : e \in ErrTexts }

(***************************************************************************)
(* result.json.  A JSON text is a sequence of lexemes; json.load parses    *)
(* one value (a number, NaN, or an object of at most one member) between   *)
(* optional whitespace, JSONResponse renders it back without whitespace    *)
(* and refuses NaN (allow_nan=False).                                      *)
(***************************************************************************)
JsonNumbers == {"4", "5"}
JsonKeys == {"\"answer\""}

RECURSIVE SkipWs(_, _)
SkipWs(t, i) == IF i <= Len(t) /\ t[i] \in Whitespace THEN SkipWs(t, i + 1) ELSE i

JsonFail == [ok |-> FALSE, value |-> <<>>, next |-> 0]

RECURSIVE ParseValue(_, _)
ParseValue(t, i0) ==
    LET i == SkipWs(t, i0)
    IN  IF i > Len(t) THEN JsonFail
        ELSE IF t[i] \in JsonNumbers
        THEN [ok |-> TRUE, value |-> [t |-> "num", v |-> t[i]], next |-> i + 1]
        ELSE IF t[i] = "NaN"
        THEN [ok |-> TRUE, value |-> [t |-> "nan"], next |-> i + 1]
        ELSE IF t[i] = "{"
        THEN LET j == SkipWs(t, i + 1)
             IN  IF j > Len(t) THEN JsonFail
                 ELSE IF t[j] = "}"
                 THEN [ok |-> TRUE, value |-> [t |-> "obj", m |-> <<>>], next |-> j + 1]
                 ELSE IF t[j] \notin JsonKeys THEN JsonFail
                 ELSE LET c == SkipWs(t, j + 1)
                      IN  IF c > Len(t) \/ t[c] # ":" THEN JsonFail
                          ELSE LET v == ParseValue(t, c + 1)
                                   e == SkipWs(t, v.next)
                               IN  IF ~v.ok THEN JsonFail
                                   ELSE IF e > Len(t) \/ t[e] # "}" THEN JsonFail
                                   ELSE [ok |-> TRUE,
                                         value |-> [t |-> "obj", m |-> <<t[j], v.value>>],
                                         next |-> e + 1]
        ELSE JsonFail

\* json.load(f): the parsed value, or JSONDecodeError
JsonLoad(t) ==
    LET v == ParseValue(t, 1)
    IN  IF v.ok /\ SkipWs(t, v.next) > Len(t) THEN v ELSE JsonFail

RECURSIVE HasNaN(_)
HasNaN(v) ==
    IF v.t = "nan" THEN TRUE
    ELSE IF v.t = "obj" /\ v.m # <<>> THEN HasNaN(v.m[2])
    ELSE FALSE

RECURSIVE Render(_)
\* JSONResponse.render: json.dumps(content, allow_nan=False, separators=(",", ":"))
Render(v) ==
    IF v.t = "num" THEN <<v.v>>
    ELSE IF v.t = "nan" THEN <<"NaN">>
    ELSE IF v.m = <<>> THEN <<"{", "}">>
    ELSE <<"{", v.m[1], ":">> \o Render(v.m[2]) \o <<"}">>

ResultTexts ==
    { <<"{", "\"answer\"", ":", " ", "4", "}">>,
      <<"5", "\n">>,
      <<"{", "\"answer\"", ":", "NaN", "}">>,
      <<"{", "\"answer\"", ":">> }

\* What an execution does to result.json: nothing, or writes a text.
ResultWrites == { <<>> } \cup { <<t>> : t \in ResultTexts }

VARIABLES
    pc,                    \* position of the handler
    request_id,            \* <<>> before the request starts
    dirs,                  \* directories that exist
    fs,                    \* files: path -> content (the entries of app.log are in log)
    log,                   \* the request log, one entry per logger call
    saved_files,           \* dict field name -> path
    question_text,         \* None or the decoded question
    llm_response,          \* None or the parse call's dict
    execution_result,      \* None or the scrape execution's outcome
    answer_code_response,  \* None or the current answer revision
    attempt,               \* loop variable of the repair loop
    final_result,          \* None or the last answer execution's outcome
    retry_message,         \* None or the excerpt given to the last repair call
    response,              \* None or the JSON response returned
    calls,                 \* history of collaborator calls
    executed,              \* None or the code and libraries last executed
    generated,             \* None or the last dict an answer or repair call returned
    asked                  \* the arguments of the answer and repair calls, in order

vars == << pc, request_id, dirs, fs, log, saved_files, question_text,
           llm_response, execution_result, answer_code_response, attempt,
           final_result, retry_message, response, calls, executed,
           generated, asked >>

request_folder == JoinPath(UPLOAD_DIR, request_id)
log_path == JoinPath(request_folder, <<"app.log">>)
metadata_path == JoinPath(request_folder, <<"metadata.txt">>)
result_path == JoinPath(request_folder, <<"result.json">>)

Exists(path) == path \in DOMAIN fs

WriteFile(files, path, content) ==
    [p \in DOMAIN files \cup {path} |-> IF p = path THEN content ELSE files[p]]

\* JSONResponse(status_code, content={"message": m, "details": d})
ErrorResponse(status, message, details) ==
    [status |-> status, message |-> message, details |-> details, body |-> <<>>]

Init ==
    /\ pc = "start"
    /\ request_id = <<>>
    /\ dirs = {UPLOAD_DIR}
    /\ fs = << >>
    /\ log = <<>>
    /\ saved_files = << >>
    /\ question_text = <<>>
    /\ llm_response = <<>>
    /\ execution_result = <<>>
    /\ answer_code_response = <<>>
    /\ attempt = 0
    /\ final_result = <<>>
    /\ retry_message = <<>>
    /\ response = <<>>
    /\ calls = <<>>
    /\ executed = <<>>
    /\ generated = <<>>
    /\ asked = <<>>

(***************************************************************************)
(* Lines 69-78: the loop over the form's fields.  Each field is written to *)
(* os.path.join(request_folder, field_name) before its name is looked at;  *)
(* a question field is then decoded, which may raise.                      *)
(***************************************************************************)
RECURSIVE SaveFields(_, _, _, _)
SaveFields(form, folder, i, acc) ==
    IF i > Len(form) THEN acc
    ELSE LET field == form[i]
             file_path == JoinPath(folder, field.name)
             written == [acc EXCEPT
                 !.fs = WriteFile(acc.fs, Resolve(file_path), field.content),
                 !.saved_files = WriteFile(acc.saved_files, field.name, file_path)]
         IN  IF Contains(field.name, "questions.txt")
             THEN IF DecodeOk(field.content)
                  THEN SaveFields(form, folder, i + 1,
                         [written EXCEPT !.question_text = <<Decode(field.content)>>])
                  ELSE [written EXCEPT !.raised = TRUE]
             ELSE SaveFields(form, folder, i + 1, written)

\* `if not question_text`: None or the empty string
NoQuestion(q) == q = <<>> \/ q[1] = <<>>

\* Lines 46-83.
ReadForm ==
    /\ pc = "start"
    /\ \E id \in RequestIds, formOk \in BOOLEAN, form \in Forms :
        LET folder == JoinPath(UPLOAD_DIR, id)
            start == [fs |-> WriteFile(fs, JoinPath(folder, <<"app.log">>), <<>>),
                      saved_files |-> << >>,
                      question_text |-> <<>>,
                      raised |-> FALSE]
            saved == SaveFields(form, folder, 1, start)
        IN  /\ request_id' = id
            /\ dirs' = dirs \cup {folder}
            /\ IF ~formOk
               THEN \* request.form() raised: nothing catches it
                    /\ pc' = "crashed"
                    /\ fs' = start.fs
                    /\ log' = Append(log, <<"Step-1">>)
                    /\ UNCHANGED << saved_files, question_text, response >>
               ELSE /\ fs' = saved.fs
                    /\ saved_files' = saved.saved_files
                    /\ question_text' = saved.question_text
                    /\ IF saved.raised
                       THEN /\ pc' = "crashed"
                            /\ log' = Append(log, <<"Step-1">>)
                            /\ UNCHANGED response
                       ELSE IF NoQuestion(saved.question_text)
                       THEN /\ pc' = "done"
                            /\ log' = Append(log, <<"Step-1">>)
                            /\ response' = <<ErrorResponse(400,
                                   <<"questions.txt is a required field.">>, <<>>)>>
                       ELSE /\ pc' = "parse"
                            /\ log' = log \o <<<<"Step-1">>, <<"Step-2">>>>
                            /\ UNCHANGED response
    /\ UNCHANGED << llm_response, execution_result, answer_code_response,
                    attempt, final_result, retry_message, calls, executed,
                    generated, asked >>

\* One entry of the history of collaborator calls: for a generator call ok
\* says that it returned, for an execution that the outcome was a success.
Call(op, ok) == [op |-> op, ok |-> ok]

\* The executor's convention: code 1 is a success, code 0 a failure.
ExitOk(outcome) == outcome.code = 1

HasKeys(d, keys) == keys \subseteq DOMAIN d

\* A plausible slip: the failed call is made again.
AfterGeneratorRaised_retry(position) == position

\* Lines 96 and 122: the handler returns.
AfterGeneratorRaised(position) == "done"

\* Lines 86-96.
ParseCall ==
    /\ pc = "parse"
    /\ \E result \in ParseResults :
        /\ calls' = Append(calls, Call("parse", ~result.raised))
        /\ IF result.raised
           THEN /\ log' = Append(log, <<"Error getting initial code from LLM">>)
                /\ response' = <<ErrorResponse(500, <<"LLM Error: ", result.value>>, <<>>)>>
                /\ pc' = AfterGeneratorRaised("parse")
                /\ UNCHANGED llm_response
           ELSE /\ llm_response' = <<result.value>>
                /\ log' = Append(log, <<"Step-3">>)
                /\ pc' = "scrape"
                /\ UNCHANGED response
    /\ UNCHANGED << request_id, dirs, fs, saved_files, question_text,
                    execution_result, answer_code_response, attempt,
                    final_result, retry_message, executed,
                    generated, asked >>

\* A plausible slip: the answer phase's test, negated.
ScrapeFailed_inverted(outcome) == outcome.code = 1

\* A plausible slip: only a code outside the executor's two values counts
\* as a failure, so that 0 passes for a success.
ScrapeFailed_falsy(outcome) == outcome.code \notin ExecCodes

\* Line 101: the scrape phase's test of the outcome.
ScrapeFailed(outcome) == outcome.code = 0

\* A plausible slip: the check of line 107 left out.
MetadataMissing_unchecked(files) == FALSE

\* Line 107: not os.path.exists(metadata_path)
MetadataMissing(files) == metadata_path \notin DOMAIN files

\* Lines 99-110.
ScrapeExec ==
    /\ pc = "scrape"
    /\ IF ~HasKeys(llm_response[1], {"code", "libraries"})
       THEN \* KeyError at line 99, outside any try
            /\ pc' = "crashed"
            /\ UNCHANGED << fs, log, execution_result, response, calls, executed >>
       ELSE \E outcome \in ExecOutcomes, writesMeta \in BOOLEAN :
            LET files == IF writesMeta THEN WriteFile(fs, metadata_path, MetaBytes)
                         ELSE fs
            IN  /\ fs' = files
                /\ execution_result' = <<outcome>>
                /\ calls' = Append(calls, Call("exec_scrape", ExitOk(outcome)))
                /\ executed' = <<[code |-> llm_response[1].code,
                                  libraries |-> llm_response[1].libraries]>>
                /\ IF ScrapeFailed(outcome)
                   THEN /\ log' = Append(log, <<"Error executing scraping code">>)
                        /\ response' = <<ErrorResponse(500,
                               <<"Failed to execute data scraping code.">>,
                               <<outcome.output>>)>>
                        /\ pc' = "done"
                   ELSE IF MetadataMissing(files)
                   THEN /\ log' = log \o <<<<"Step-4">>, <<"metadata.txt missing">>>>
                        /\ response' = <<ErrorResponse(500,
                               <<"Scraping code executed successfully, but failed to create metadata.txt at ",
                                 metadata_path>>, <<>>)>>
                        /\ pc' = "done"
                   ELSE /\ log' = Append(log, <<"Step-4">>)
                        /\ pc' = "answer"
                        /\ UNCHANGED response
    /\ UNCHANGED << request_id, dirs, saved_files, question_text, llm_response,
                    answer_code_response, attempt, final_result, retry_message,
                    generated, asked >>

\* The arguments of one answer_with_data call: the question text and
\* whether a retry_message came with it.
Asked(q, retry) == [question_text |-> q, retry |-> retry]

\* Lines 113-122.
AnswerCall ==
    /\ pc = "answer"
    /\ IF ~HasKeys(llm_response[1], {"questions"})
       THEN \* KeyError inside the try: caught like a failed call
            /\ log' = Append(log, <<"Error getting answer code from LLM">>)
            /\ response' = <<ErrorResponse(500,
                   <<"LLM Error during answer generation: ", <<"'questions'">>>>, <<>>)>>
            /\ pc' = "done"
            /\ UNCHANGED << answer_code_response, calls, generated, asked >>
       ELSE \E result \in AnswerResults :
            /\ calls' = Append(calls, Call("answer", ~result.raised))
            /\ asked' = Append(asked, Asked(llm_response[1].questions, FALSE))
            /\ generated' = IF result.raised THEN generated ELSE <<result.value>>
            /\ IF result.raised
               THEN /\ log' = Append(log, <<"Error getting answer code from LLM">>)
                    /\ response' = <<ErrorResponse(500,
                           <<"LLM Error during answer generation: ", result.value>>, <<>>)>>
                    /\ pc' = AfterGeneratorRaised("answer")
                    /\ UNCHANGED answer_code_response
               ELSE /\ answer_code_response' = <<result.value>>
                    /\ log' = Append(log, <<"Step-5">>)
                    /\ pc' = "attempt"
                    /\ UNCHANGED response
    /\ UNCHANGED << request_id, dirs, fs, saved_files, question_text, llm_response,
                    execution_result, attempt, final_result, retry_message, executed >>

\* A plausible slip: the scrape phase's test copied into the loop.
AnswerSucceeded_as_scrape(outcome) == outcome.code = 0

\* Line 130: the answer phase's test of the outcome.
AnswerSucceeded(outcome) == outcome.code = 1

\* A plausible slip: the test of line 135 left out.
RepairAllowed_always(a) == TRUE

\* Line 135: a failed attempt is followed by a repair call.
RepairAllowed(a) == a < max_attempts - 1

\* Line 126: range(max_attempts) has a value after a.
LoopHasNext(a) == a + 1 < max_attempts

\* A plausible slip: the excerpt instead of the raw output.
ExhaustedDetails_excerpt(outcome) == <<last_n_words(outcome.output, DefaultN)>>

\* Line 151: "details" of the response after the last failed attempt.
ExhaustedDetails(outcome) == <<outcome.output>>

\* Lines 126-134 and 149-151: one iteration of the loop up to its next await.
AnswerExec ==
    /\ pc = "attempt"
    /\ LET entry == <<"Step-6: Executing final code", attempt + 1, max_attempts>>
       IN
       IF ~HasKeys(answer_code_response[1], {"code", "libraries"})
       THEN \* KeyError at line 128, outside any try
            /\ pc' = "crashed"
            /\ log' = Append(log, entry)
            /\ UNCHANGED << fs, final_result, response, calls, executed >>
       ELSE \E outcome \in ExecOutcomes, written \in ResultWrites :
            /\ fs' = IF written # <<>> THEN WriteFile(fs, result_path, written[1]) ELSE fs
            /\ final_result' = <<outcome>>
            /\ calls' = Append(calls, Call("exec_answer", ExitOk(outcome)))
            /\ executed' = <<[code |-> answer_code_response[1].code,
                              libraries |-> answer_code_response[1].libraries]>>
            /\ IF AnswerSucceeded(outcome)
               THEN /\ log' = log \o <<entry, <<"Step-6: Final code executed successfully!">>>>
                    /\ pc' = "read_result"
                    /\ UNCHANGED response
               ELSE IF RepairAllowed(attempt)
               THEN /\ log' = log \o <<entry, <<"Execution failed on attempt", attempt + 1>>,
                                       <<"Asking LLM to fix the code.">>>>
                    /\ pc' = "repair"
                    /\ UNCHANGED response
               ELSE /\ log' = log \o <<entry, <<"Execution failed on attempt", attempt + 1>>,
                                       <<"Max retry attempts reached.">>>>
                    /\ response' = <<ErrorResponse(500,
                           <<"Failed to execute final answer code after retries.">>,
                           ExhaustedDetails(outcome))>>
                    /\ pc' = "done"
    \* the excerpt is not read again: line 138 assigns it before its next use
    /\ retry_message' = <<>>
    /\ UNCHANGED << request_id, dirs, saved_files, question_text, llm_response,
                    execution_result, answer_code_response, attempt,
                    generated, asked >>

\* A plausible slip: the failed attempt's output, as at line 151.
RepairFailureDetails_output(e, outcome) == <<outcome.output>>

\* Line 148: "details" of the response to a failed repair call, str(e).
RepairFailureDetails(e, outcome) == <<e>>

\* A plausible slip: the exception is logged and the loop goes on.
AfterRepairRaised_continue == "attempt"

\* Line 148: the handler returns.
AfterRepairRaised == "done"

\* A plausible slip: the reply is bound to another name and the old
\* revision is run again.
NextRevision_keep(current, returned) == current

\* Line 139: the reply replaces answer_code_response.
NextRevision(current, returned) == returned

\* Lines 136-148: the repair call and the loop's step to the next attempt.
RepairCall ==
    /\ pc = "repair"
    /\ retry_message' = <<last_n_words(final_result[1].output, DefaultN)>>
    /\ \E result \in AnswerResults :
        /\ calls' = Append(calls, Call("repair", ~result.raised))
        /\ asked' = Append(asked, Asked(llm_response[1].questions, TRUE))
        /\ generated' = IF result.raised THEN generated ELSE <<result.value>>
        /\ IF result.raised
           THEN /\ log' = Append(log, <<"LLM failed to provide a fix">>)
                /\ response' = <<ErrorResponse(500, <<"LLM could not fix the code.">>,
                       RepairFailureDetails(result.value, final_result[1]))>>
                /\ pc' = AfterRepairRaised
                /\ UNCHANGED << answer_code_response, attempt >>
           ELSE /\ answer_code_response' =
                       <<NextRevision(answer_code_response[1], result.value)>>
                /\ log' = Append(log, <<"Received corrected code from LLM.">>)
                /\ attempt' = attempt + 1
                /\ pc' = IF LoopHasNext(attempt) THEN "attempt" ELSE "read_result"
                /\ UNCHANGED response
    /\ UNCHANGED << request_id, dirs, fs, saved_files, question_text, llm_response,
                    execution_result, final_result, executed >>

\* A plausible slip: JSONResponse(content=str(data)), a JSON string.
SuccessResponse_str(data) ==
    [status |-> 200, message |-> <<>>, details |-> <<>>, body |-> << <<"\"str\"">> >>]

\* JSONResponse(content=data): status 200, the rendered value
SuccessResponse(data) ==
    [status |-> 200, message |-> <<>>, details |-> <<>>, body |-> <<Render(data)>>]

\* A plausible slip: the response of line 151 reused for a read failure.
ResultReadError_exhausted(e) ==
    ErrorResponse(500, <<"Failed to execute final answer code after retries.">>, <<e>>)

\* Line 162: the response to a result.json that cannot be read or sent.
ResultReadError(e) == ErrorResponse(500, <<"Could not read result file.">>, <<e>>)

\* Lines 155-157: open and json.load; ok is FALSE when either raises.
ReadJson(files, path) ==
    IF path \in DOMAIN files THEN JsonLoad(files[path]) ELSE JsonFail

\* Lines 154-162.
ReadResult ==
    /\ pc = "read_result"
    /\ LET data == ReadJson(fs, result_path)
       IN  IF ~data.ok
           THEN /\ log' = Append(log, <<"Step-7: Error reading result.json">>)
                /\ response' = <<ResultReadError(<<"read error">>)>>
           ELSE IF HasNaN(data.value)
           THEN \* JSONResponse raises ValueError inside the try
                /\ log' = log \o <<<<"Step-7: Successfully sending result back.">>,
                                   <<"Step-7: Error reading result.json">>>>
                /\ response' = <<ResultReadError(
                       <<"Out of range float values are not JSON compliant">>)>>
           ELSE /\ log' = Append(log, <<"Step-7: Successfully sending result back.">>)
                /\ response' = <<SuccessResponse(data.value)>>
    /\ pc' = "done"
    /\ UNCHANGED << request_id, dirs, fs, saved_files, question_text, llm_response,
                    execution_result, answer_code_response, attempt, final_result,
                    retry_message, calls, executed,
                    generated, asked >>

Next ==
    \/ ReadForm
    \/ ParseCall
    \/ ScrapeExec
    \/ AnswerCall
    \/ AnswerExec
    \/ RepairCall
    \/ ReadResult

Spec == Init /\ [][Next]_vars

(***************************************************************************)
(* Properties.                                                             *)
(***************************************************************************)
Count(op) == Cardinality({ i \in 1..Len(calls) : calls[i].op = op })
CountFailed(op) == Cardinality({ i \in 1..Len(calls) : calls[i].op = op /\ ~calls[i].ok })
LastCall == IF calls = <<>> THEN Call("none", TRUE) ELSE calls[Len(calls)]
Responded == pc = "done" /\ response # <<>>
IsError(r) == r.status = 500 /\ r.message # <<>> /\ r.body = <<>>

\* C1: the answer code is executed at most 3 times; an execution that is not
\* the last one returned a failure; after an execution that returned success
\* there is no further execution and no repair call.
C1_AttemptsBounded ==
    /\ Count("exec_answer") <= 3
    /\ \A i \in 1..Len(calls) :
         calls[i].op = "exec_answer" =>
           /\ calls[i].ok => i = Len(calls)
           /\ (\E j \in (i + 1)..Len(calls) : calls[j].op = "exec_answer") => ~calls[i].ok

\* Two failed attempts, then a third that succeeds and ends the loop.
C1_Witness ==
    /\ Count("exec_answer") = 3
    /\ LastCall.op = "exec_answer" /\ LastCall.ok
    /\ pc = "read_result"

\* C2: when all 3 attempts failed, the request has ended with an error
\* response whose details is the whole output of attempt 3, and the third
\* failure was followed by no repair call (2 repair calls, the last call is
\* the third execution).
C2_ExhaustedDetailsRaw ==
    CountFailed("exec_answer") = 3 =>
        /\ Responded
        /\ IsError(response[1])
        /\ response[1].details = <<final_result[1].output>>
        /\ Count("repair") = 2
        /\ LastCall.op = "exec_answer"

\* Three failures, the third with more output than an excerpt would hold.
C2_Witness ==
    /\ CountFailed("exec_answer") = 3
    /\ Responded
    /\ Len(split(final_result[1].output)) > 100

\* C3: a repair call that raised is the last call of the request, which has
\* ended with an error response.
C3_RepairFailureStops ==
    \A i \in 1..Len(calls) :
        calls[i].op = "repair" /\ ~calls[i].ok =>
            /\ i = Len(calls)
            /\ Responded
            /\ IsError(response[1])

\* The repair call after the second failed attempt raised.
C3_Witness ==
    /\ Count("exec_answer") = 2
    /\ LastCall.op = "repair" /\ ~LastCall.ok
    /\ Responded

\* The two ways the repair loop ends in ExhaustedFailed.
EndedExhausted == Responded /\ LastCall.op = "exec_answer" /\ ~LastCall.ok
EndedRepairFailed == Responded /\ LastCall.op = "repair" /\ ~LastCall.ok

\* C4 as claimed: on both ways the response carries the output of the last
\* executed attempt.
C4_AsClaimed ==
    EndedExhausted \/ EndedRepairFailed =>
        response[1].details = <<final_result[1].output>>

\* C4 as amended: after a failure on the final attempt the details is the
\* output of that attempt; after a failed repair call the details is the
\* text of the exception the call raised.
C4_DetailsByPath ==
    /\ EndedExhausted => response[1].details = <<final_result[1].output>>
    /\ EndedRepairFailed =>
         /\ response[1].details \in { <<e>> : e \in ErrTexts }
         /\ response[1].message = <<"LLM could not fix the code.">>

\* A failed repair call after an attempt whose output is not empty.
C4_Witness ==
    /\ EndedRepairFailed
    /\ final_result[1].output # <<>>

\* C5: the excerpt given to a repair call holds at most 100 tokens, and they
\* are the last tokens of the failed attempt's output, in order: all of them
\* when the output has 100 or fewer.
C5_ExcerptIsTail ==
    retry_message # <<>> =>
        LET excerpt == split(retry_message[1])
            all == split(final_result[1].output)
        IN  /\ Len(excerpt) <= 100
            /\ Len(excerpt) = (IF Len(all) <= 100 THEN Len(all) ELSE 100)
            /\ \A i \in 1..Len(excerpt) :
                 excerpt[i] = all[Len(all) - Len(excerpt) + i]

\* An excerpt of an output of more than 100 tokens, shorter than the output
\* by more than the dropped tokens (the separators are normalised too).
C5_Witness ==
    /\ retry_message # <<>>
    /\ Len(split(final_result[1].output)) > 100
    /\ Len(split(retry_message[1])) = 100
    /\ Len(final_result[1].output) > Len(retry_message[1]) + 4

\* The request named no question field: no saved field's name contains
\* questions.txt.
NoQuestionField ==
    \A name \in DOMAIN saved_files : ~Contains(name, "questions.txt")

\* C6 as claimed: a request without a question field ends with status 400,
\* with no generator call and no execution, and with nothing written into
\* the working folder (here even its log file is allowed).
C6_AsClaimed ==
    pc = "done" /\ NoQuestionField =>
        /\ response[1].status = 400
        /\ calls = <<>>
        /\ DOMAIN fs \subseteq {log_path}

\* The scrape code ran, and metadata.txt is missing or is not what it wrote.
ScrapeRan == Count("exec_scrape") = 1
ScrapeWroteMetadata == Exists(metadata_path) /\ fs[metadata_path] = MetaBytes

\* C7 as claimed: when the scrape code did not write metadata.txt the request
\* has ended with an error response, and the answer generator was not called
\* and no answer code was executed.
C7_AsClaimed ==
    ScrapeRan /\ ~ScrapeWroteMetadata =>
        /\ Responded
        /\ IsError(response[1])
        /\ Count("answer") = 0
        /\ Count("exec_answer") = 0

\* C8: the scrape code is executed at most once, and when that execution
\* returned a failure it is the last call of the request, which has ended
\* with an error response.
C8_ScrapeNotRetried ==
    /\ Count("exec_scrape") <= 1
    /\ \A i \in 1..Len(calls) :
         calls[i].op = "exec_scrape" /\ ~calls[i].ok =>
            /\ i = Len(calls)
            /\ Responded
            /\ IsError(response[1])
            /\ response[1].details = <<execution_result[1].output>>

\* The single scrape execution failed, with some output.
C8_Witness ==
    /\ LastCall.op = "exec_scrape" /\ ~LastCall.ok
    /\ Responded
    /\ execution_result[1].output # <<>>

\* C9 as claimed: no exception leaves the handler.
C9_AsClaimed == pc # "crashed"

\* C10: a 200 response is given only after an answer attempt that returned
\* success, with result.json present and parsable, and its body parses to
\* the value result.json parses to.
C10_SuccessIsResult ==
    response # <<>> /\ response[1].status = 200 =>
        /\ LastCall.op = "exec_answer" /\ LastCall.ok
        /\ Exists(result_path)
        /\ JsonLoad(fs[result_path]).ok
        /\ response[1].body # <<>>
        /\ JsonLoad(response[1].body[1]).ok
        /\ JsonLoad(response[1].body[1]).value = JsonLoad(fs[result_path]).value

\* A 200 response whose body is not the file's text (the whitespace differs)
\* after a first attempt that failed.
C10_Witness ==
    /\ Responded
    /\ response[1].status = 200
    /\ response[1].body[1] # fs[result_path]
    /\ Count("exec_answer") = 2

\* result.json cannot be read: it is missing, or json.load refuses it.
ResultUnreadable == ~Exists(result_path) \/ ~JsonLoad(fs[result_path]).ok

\* The messages of the other error responses of the handler.
OtherErrorMessages ==
    { <<"Failed to execute final answer code after retries.">>,
      <<"LLM could not fix the code.">>,
      <<"Failed to execute data scraping code.">>,
      <<"questions.txt is a required field.">> }

\* C11: after an answer attempt that returned success the loop is not entered
\* again (that attempt stays the last call), and when result.json is then
\* missing or unparsable the request ends with the result-read error
\* response, whose message no other error response has.
C11_ReadFailureIsTerminal ==
    LastCall.op = "exec_answer" /\ LastCall.ok =>
        /\ pc \in {"read_result", "done"}
        /\ pc = "done" /\ ResultUnreadable =>
             /\ response # <<>>
             /\ IsError(response[1])
             /\ response[1].message = <<"Could not read result file.">>
             /\ response[1].message \notin OtherErrorMessages
             /\ response[1].details # <<>>

\* The first attempt succeeded, result.json is unreadable, the request ended.
C11_Witness ==
    /\ Count("exec_answer") = 1
    /\ LastCall.op = "exec_answer" /\ LastCall.ok
    /\ ResultUnreadable
    /\ Responded

\* C12: a parse call or initial answer call that raised is the last call of
\* the request, which has ended with a 500 response; each is made at most
\* once, so after a failed parse call nothing is executed and after a failed
\* initial answer call no answer code is executed and no repair is asked.
C12_GeneratorFailureNotRetried ==
    /\ Count("parse") <= 1
    /\ Count("answer") <= 1
    /\ \A i \in 1..Len(calls) :
         calls[i].op \in {"parse", "answer"} /\ ~calls[i].ok =>
            /\ i = Len(calls)
            /\ Responded
            /\ IsError(response[1])
            /\ Count("exec_answer") = 0
            /\ Count("repair") = 0
            /\ calls[i].op = "parse" => Count("exec_scrape") = 0

\* The initial answer call raised after a scrape phase that went well.
C12_Witness ==
    /\ LastCall.op = "answer" /\ ~LastCall.ok
    /\ Count("exec_scrape") = 1
    /\ Responded

\* The parse call raised.
C12_WitnessParse ==
    /\ LastCall.op = "parse" /\ ~LastCall.ok
    /\ Responded

\* C13 as claimed: every uploaded field is saved to a file inside the
\* request's own working folder.
C13_AsClaimed ==
    \A name \in DOMAIN saved_files :
        Under(Resolve(saved_files[name]), request_folder)

\* The log's attempt entries, "Step-6: Executing final code (Attempt k/3)",
\* and the outcomes of the answer executions, both in order.
IsAttemptEntry(e) == e[1] = "Step-6: Executing final code"
AttemptEntries == SelectSeq(log, IsAttemptEntry)
IsAnswerExec(c) == c.op = "exec_answer"
AnswerExecOks ==
    LET execs == SelectSeq(calls, IsAnswerExec)
    IN  [i \in 1..Len(execs) |-> execs[i].ok]

\* The scenario of C14: attempts 1 and 2 fail and attempt 3 succeeds.  Then
\* there are 2 repair calls, the log holds the entries for k = 1, 2, 3 in
\* order, and the response is the one read from result.json afterwards.
C14_Scenario ==
    AnswerExecOks = <<FALSE, FALSE, TRUE>> =>
        /\ Count("repair") = 2
        /\ LastCall.op = "exec_answer"
        /\ AttemptEntries = [k \in 1..3 |-> <<"Step-6: Executing final code", k, 3>>]
        /\ Responded /\ ~ResultUnreadable /\ ~HasNaN(JsonLoad(fs[result_path]).value) =>
             /\ response[1].status = 200
             /\ response[1].body = <<Render(JsonLoad(fs[result_path]).value)>>

\* The scenario, answered from the result.json written by attempt 3.
C14_ScenarioReached ==
    /\ AnswerExecOks = <<FALSE, FALSE, TRUE>>
    /\ Responded
    /\ response[1].status = 200

\* The general part of C14: there are as many attempt entries in the log as
\* answer executions were started.
C14_EntriesMatchExecutions == Len(AttemptEntries) = Count("exec_answer")

\* C14 as claimed: the scenario and the general count.
C14_AsClaimed == C14_Scenario /\ C14_EntriesMatchExecutions

\* C15: the calls of one request follow one another in the handler's order,
\* each made only after the one before it has returned what the next needs.
\* The scrape execution is the second call, after a parse call that
\* returned; the initial answer call is the third, after a scrape execution
\* that succeeded and with metadata.txt in the folder; an answer execution
\* directly follows an answer or repair call that returned; a repair call
\* directly follows a failed answer execution.  The handler's position
\* agrees with the last call.  (Each awaited call and its return are one
\* step: the handler makes no call before the pending one has returned.)
C15_StrictSequence ==
    /\ \A i \in 1..Len(calls) :
         /\ calls[i].op = "parse" => i = 1
         /\ calls[i].op = "exec_scrape" =>
              i = 2 /\ calls[1] = Call("parse", TRUE)
         /\ calls[i].op = "answer" =>
              i = 3 /\ calls[2] = Call("exec_scrape", TRUE) /\ Exists(metadata_path)
         /\ calls[i].op = "exec_answer" =>
              i > 3 /\ calls[i - 1] \in {Call("answer", TRUE), Call("repair", TRUE)}
         /\ calls[i].op = "repair" =>
              i > 4 /\ calls[i - 1] = Call("exec_answer", FALSE)
    /\ pc = "scrape" => LastCall = Call("parse", TRUE)
    /\ pc = "answer" => LastCall = Call("exec_scrape", TRUE)
    /\ pc = "attempt" => LastCall \in {Call("answer", TRUE), Call("repair", TRUE)}
    /\ pc = "repair" => LastCall = Call("exec_answer", FALSE)
    /\ pc = "read_result" => LastCall = Call("exec_answer", TRUE)

\* A second answer attempt has run, after the repair call for the first.
C15_Witness ==
    /\ Len(calls) = 6
    /\ calls[5] = Call("repair", TRUE)
    /\ calls[6].op = "exec_answer"

\* C16: an execution of the answer code runs the code and the library list
\* of the reply the generator returned last (after a repair, the repair's
\* reply and no earlier revision); a repair call is given the last 100 words
\* of the output of the failed attempt just before it (read in the state the
\* call returns to, before the handler moves on); and every answer or
\* repair call is given the questions text of the parse response, the first
\* call without a retry message and each later one with it.
C16_RevisionSupersedes ==
    /\ LastCall.op = "exec_answer" =>
         /\ generated # <<>>
         /\ HasKeys(generated[1], {"code", "libraries"})
         /\ executed = << [code |-> generated[1].code,
                           libraries |-> generated[1].libraries] >>
    /\ (LastCall.op = "repair" /\ pc # "crashed") =>
         /\ calls[Len(calls) - 1] = Call("exec_answer", FALSE)
         /\ final_result # <<>> /\ ~ExitOk(final_result[1])
         /\ retry_message # <<>>
         /\ split(retry_message[1]) = LastWords(split(final_result[1].output), DefaultN)
    /\ Len(asked) = Count("answer") + Count("repair")
    /\ \A i \in 1..Len(asked) :
         /\ asked[i].question_text = llm_response[1].questions
         /\ asked[i].retry = (i > 1)

\* The second attempt has run the second revision, returned by the repair
\* call after a first attempt that ran another revision.
C16_Witness ==
    /\ Count("exec_answer") = 2 /\ Count("repair") = 1
    /\ LastCall.op = "exec_answer"
    /\ executed # <<>> /\ executed[1].code = "answer_v2"
    /\ \E i \in 1..Len(log) : log[i] = <<"Received corrected code from LLM.">>
    /\ Len(asked) = 2 /\ asked[2].retry

\* The handler has left analyze: by a return or by an exception.
Ended == pc \in {"done", "crashed"}

\* The calls the claim counts: at most 1 parse call, 1 scrape execution,
\* 3 answer-generator calls (1 initial and 2 repairs) and 3 answer
\* executions.
C17_CallsBounded ==
    /\ Count("parse") <= 1
    /\ Count("exec_scrape") <= 1
    /\ Count("answer") <= 1
    /\ Count("repair") <= max_attempts - 1
    /\ Count("answer") + Count("repair") <= max_attempts
    /\ Count("exec_answer") <= max_attempts

\* How far the handler has come: the positions of analyze in program order,
\* the loop's positions once per iteration.
Progress ==
    CASE pc = "start" -> 0
      [] pc = "parse" -> 1
      [] pc = "scrape" -> 2
      [] pc = "answer" -> 3
      [] pc = "attempt" -> 4 + 2 * attempt
      [] pc = "repair" -> 5 + 2 * attempt
      [] pc = "read_result" -> 4 + 2 * max_attempts
      [] OTHER -> 5 + 2 * max_attempts

\* Every step of the handler moves it forward: it visits no position twice,
\* so it cannot loop.
C17_Advances == [][Progress' > Progress]_vars

\* C17 as claimed: the calls stay within the bounds, and a handler that has
\* ended has given a response.
C17_AsClaimed ==
    /\ C17_CallsBounded
    /\ Ended => response # <<>>

\* What each phase made of the outcome it was given, as its log tells.
ScrapeTreatedAsFailure ==
    \E i \in 1..Len(log) : log[i] = <<"Error executing scraping code">>
AnswerTreatedAsSuccess ==
    \E i \in 1..Len(log) : log[i] = <<"Step-6: Final code executed successfully!">>

\* C18: for every outcome the executor can return, the scrape phase's test
\* takes it for a success exactly when the answer phase's test does; and the
\* handler has treated the scrape outcome and the last answer outcome as
\* the other phase's test classifies them.
C18_SameClassification ==
    /\ \A o \in ExecOutcomes : ~ScrapeFailed(o) <=> AnswerSucceeded(o)
    /\ execution_result # <<>> =>
         (~ScrapeTreatedAsFailure <=> AnswerSucceeded(execution_result[1]))
    /\ final_result # <<>> =>
         (AnswerTreatedAsSuccess <=> ~ScrapeFailed(final_result[1]))

\* Both classes have occurred in one request: a scrape outcome taken for a
\* success and an answer outcome taken for a failure.
C18_Witness ==
    /\ execution_result # <<>> /\ execution_result[1].code = 1
    /\ final_result # <<>> /\ final_result[1].code = 0
    /\ ~ScrapeTreatedAsFailure /\ ~AnswerTreatedAsSuccess
    /\ pc = "repair"

\* The handler is in the repair loop or has been through it.
InLoop == pc \in {"attempt", "repair"} \/ Count("exec_answer") > 0

\* The repair calls made: those that have returned and the one awaited.
RepairsMade == Count("repair") + (IF pc = "repair" THEN 1 ELSE 0)

\* The answer executions started: those that have returned and the one
\* awaited (none is awaited when line 128 raises before the call).
ExecutionUnderWay ==
    pc = "attempt" /\ HasKeys(answer_code_response[1], {"code", "libraries"})
ExecsStarted == Count("exec_answer") + (IF ExecutionUnderWay THEN 1 ELSE 0)

\* The failed attempts among attempts 1 and 2.
FailedEarlyAttempts ==
    LET execs == AnswerExecOks
    IN  Cardinality({ k \in 1..Len(execs) : k < max_attempts /\ ~execs[k] })

\* No repair call after a successful attempt or after attempt 3.
RepairOnlyAfterEarlyFailure ==
    /\ \A i \in 1..Len(calls) : calls[i].op = "repair" =>
         /\ i > 1 /\ calls[i - 1] = Call("exec_answer", FALSE)
         /\ Cardinality({ j \in 1..i : calls[j].op = "exec_answer" }) < max_attempts
    /\ pc = "repair" =>
         /\ LastCall = Call("exec_answer", FALSE)
         /\ Count("exec_answer") < max_attempts

\* C19 as claimed: in the loop the repair calls made are as many as the
\* failed attempts among attempts 1 and 2, at most 2, and always fewer than
\* the executions started.
C19_AsClaimed ==
    InLoop =>
        /\ RepairsMade = FailedEarlyAttempts
        /\ RepairsMade <= max_attempts - 1
        /\ RepairsMade < ExecsStarted
        /\ RepairOnlyAfterEarlyFailure

\* C19: in the loop the repair calls made are as many as the failed attempts
\* among attempts 1 and 2, at most 2 and at most the executions started;
\* they are fewer than the executions started while an execution is under
\* way and after an attempt that succeeded or was attempt 3; and no repair
\* call follows a successful attempt or attempt 3.
C19_RepairsFollowFailures ==
    InLoop =>
        /\ RepairsMade = FailedEarlyAttempts
        /\ RepairsMade <= max_attempts - 1
        /\ RepairsMade <= ExecsStarted
        /\ (\/ ExecutionUnderWay
            \/ LastCall = Call("exec_answer", TRUE)
            \/ Count("exec_answer") = max_attempts) => RepairsMade < ExecsStarted
        /\ RepairOnlyAfterEarlyFailure

\* A request that has ended on a failed repair call after one execution:
\* one repair call made, one execution started.
C19_Witness ==
    /\ EndedRepairFailed
    /\ RepairsMade = 1 /\ ExecsStarted = 1 /\ FailedEarlyAttempts = 1

====
